---------------------------- MODULE Spec2Model ----------------------------
(***************************************************************************)
(* Model of the acquisition calculator of src/src/App.tsx: the form state  *)
(* of BusinessCalculator, the metrics engine (calculateMetrics and its     *)
(* helpers) and the deal evaluator (analyzeDeal, calculateDealScore).      *)
(*                                                                         *)
(* A JavaScript number is modelled as a record [k, v]: k = "fin" with v    *)
(* the value in units of 1/SCALE (fixed point, results of inexact          *)
(* operations rounded toward minus infinity), k = "nan" for NaN and        *)
(* k = "inf" with v = 1 or -1 for +Infinity and -Infinity.  The rounding   *)
(* of IEEE-754 doubles below 1/SCALE is not represented.                   *)
(***************************************************************************)
EXTENDS Integers, Sequences, FiniteSets, TLC

VARIABLES
    values,     \* the Formik form values (FormValues)
    results,    \* useState results: <<>> for null, else <<CalculationResults>>
    analysis,   \* useState analysis: <<>> for null, else <<DealAnalysis>>
    log,        \* history: one entry per submission, its input and its outputs
    npvCall,    \* a call of calculateNPV: arguments and result
    scoreCall   \* a call of calculateDealScore and the tier chosen from it

vars == <<values, results, analysis, log, npvCall, scoreCall>>

-----------------------------------------------------------------------------
(* JavaScript numbers *)

SCALE == 100

FINE == 100000

Fin(v) == [k |-> "fin", v |-> v]

Num(n) == Fin(n * SCALE)

NaN == [k |-> "nan", v |-> 0]

PosInf == [k |-> "inf", v |-> 1]

NegInf == [k |-> "inf", v |-> -1]

Ratio(p, q) == Fin((p * SCALE) \div q)

Sgn(n) == IF n > 0 THEN 1 ELSE IF n < 0 THEN -1 ELSE 0

AbsInt(n) == IF n < 0 THEN -n ELSE n

\* floor(a * b / c) for c > 0, computed without forming a * b
MulDiv(a, b, c) == (a \div c) * b + ((a % c) * b) \div c

\* one step of long division by c in radix m: <<quotient so far, remainder>>
DivStep(st, m, c) == <<st[1] * m + (st[2] * m) \div c, (st[2] * m) % c>>

RECURSIVE LongDiv(_, _, _)
LongDiv(st, radices, c) ==
    IF radices = <<>> THEN st[1]
    ELSE LongDiv(DivStep(st, Head(radices), c), Tail(radices), c)

\* floor(a * SCALE / c) for c > 0, SCALE = 5 * 5 * 2 * 2
DivScaled(a, c) == LongDiv(<<a \div c, a % c>>, <<5, 5, 2, 2>>, c)

\* floor(a * FINE / c) for c > 0, FINE = 5^5 * 2^5
DivFine(a, c) ==
    LongDiv(<<a \div c, a % c>>, <<5, 5, 5, 5, 5, 2, 2, 2, 2, 2>>, c)

Neg(x) == IF x.k = "nan" THEN NaN ELSE [k |-> x.k, v |-> -x.v]

Add(x, y) ==
    IF x.k = "nan" \/ y.k = "nan" THEN NaN
    ELSE IF x.k = "inf" /\ y.k = "inf" THEN (IF x.v = y.v THEN x ELSE NaN)
    ELSE IF x.k = "inf" THEN x
    ELSE IF y.k = "inf" THEN y
    ELSE Fin(x.v + y.v)

Sub(x, y) == Add(x, Neg(y))

Mul(x, y) ==
    IF x.k = "nan" \/ y.k = "nan" THEN NaN
    ELSE IF x.k = "inf" \/ y.k = "inf"
         THEN (IF x.v = 0 \/ y.v = 0 THEN NaN
               ELSE [k |-> "inf", v |-> Sgn(x.v) * Sgn(y.v)])
    ELSE Fin(MulDiv(x.v, y.v, SCALE))

Div(x, y) ==
    IF x.k = "nan" \/ y.k = "nan" THEN NaN
    ELSE IF x.k = "inf"
         THEN (IF y.k = "inf" THEN NaN
               ELSE [k |-> "inf", v |-> x.v * (IF y.v < 0 THEN -1 ELSE 1)])
    ELSE IF y.k = "inf" THEN Fin(0)
    ELSE IF y.v = 0
         THEN (IF x.v = 0 THEN NaN ELSE [k |-> "inf", v |-> Sgn(x.v)])
    ELSE IF y.v < 0 THEN Fin(DivScaled(-x.v, -y.v))
    ELSE Fin(DivScaled(x.v, y.v))

\* position of a non-NaN number on the extended real line, for comparisons
Less(x, y) ==
    /\ x.k # "nan" /\ y.k # "nan"
    /\ \/ x.k = "fin" /\ y.k = "fin" /\ x.v < y.v
       \/ x.k = "inf" /\ x.v = -1 /\ ~(y.k = "inf" /\ y.v = -1)
       \/ y.k = "inf" /\ y.v = 1 /\ ~(x.k = "inf" /\ x.v = 1)

NumEq(x, y) == x.k # "nan" /\ y.k # "nan" /\ x = y

Gt(x, y) == Less(y, x)

Le(x, y) == Less(x, y) \/ NumEq(x, y)

Ge(x, y) == Less(y, x) \/ NumEq(x, y)

MathMin(x, y) ==
    IF x.k = "nan" \/ y.k = "nan" THEN NaN ELSE IF Less(y, x) THEN y ELSE x

MathMax(x, y) ==
    IF x.k = "nan" \/ y.k = "nan" THEN NaN ELSE IF Less(x, y) THEN y ELSE x

MathAbs(x) == IF x.k = "nan" THEN NaN ELSE [k |-> x.k, v |-> AbsInt(x.v)]

\* Math.round: nearest integer, halves toward plus infinity
MathRound(x) ==
    IF x.k = "fin" THEN Fin(((x.v + SCALE \div 2) \div SCALE) * SCALE) ELSE x


\* floor(p * q / FINE) for p, q >= 0 in units of 1/FINE, without overflow:
\* p = ph * FINE + (a * 1000 + b), q = qh * FINE + ql
MulFine(p, q) ==
    LET ph == p \div FINE
        pl == p % FINE
        qh == q \div FINE
        ql == q % FINE
        a == pl \div 1000
        b == pl % 1000
    IN  ph * qh * FINE + ph * ql + pl * qh
          + (10 * (a * ql) + (b * ql) \div 100) \div 1000

\* Math.pow(b, n) for an integer n and b >= 0, b and the result in units of
\* 1/FINE
RECURSIVE PowFine(_, _)
PowFine(b, n) ==
    IF n = 0 THEN FINE
    ELSE IF n < 0 THEN DivFine(FINE, PowFine(b, -n))
    ELSE LET half == PowFine(b, n \div 2)
             square == MulFine(half, half)
         IN  IF n % 2 = 0 THEN square ELSE MulFine(square, b)

\* Number.prototype.toFixed(d): the number rounded to d decimals, halves
\* away from zero; NaN and the infinities print as themselves
ToFixed(x, unit) ==
    IF x.k # "fin" THEN x
    ELSE Fin(Sgn(x.v) * ((2 * AbsInt(x.v) + unit) \div (2 * unit)) * unit)

-----------------------------------------------------------------------------
(* Strings: a string is the sequence of its characters *)

Digits == <<"0", "1", "2", "3", "4", "5", "6", "7", "8", "9">>

IsDigit(c) == \E i \in 1..10 : Digits[i] = c

DigitVal(c) == (CHOOSE i \in 1..10 : Digits[i] = c) - 1

\* value.replace(/[^0-9]/g, '')
StripNonDigits(s) == SelectSeq(s, IsDigit)

RECURSIVE DigitsValue(_, _)
DigitsValue(s, acc) ==
    IF s = <<>> \/ ~IsDigit(Head(s)) THEN acc
    ELSE DigitsValue(Tail(s), acc * 10 + DigitVal(Head(s)))

RECURSIVE SkipSpaces(_)
SkipSpaces(s) ==
    IF s # <<>> /\ Head(s) = " " THEN SkipSpaces(Tail(s)) ELSE s

\* parseInt(s): leading blanks, an optional sign, then the longest run of
\* digits; NaN when there is no digit
parseInt(s) ==
    LET t == SkipSpaces(s)
        signed == t # <<>> /\ Head(t) \in {"-", "+"}
        body == IF signed THEN Tail(t) ELSE t
        n == DigitsValue(body, 0)
    IN  IF body = <<>> \/ ~IsDigit(Head(body)) THEN NaN
        ELSE IF signed /\ Head(t) = "-" THEN Num(-n)
        ELSE Num(n)

RECURSIVE IntDigits(_)
IntDigits(n) ==
    IF n < 10 THEN <<Digits[n + 1]>>
    ELSE Append(IntDigits(n \div 10), Digits[(n % 10) + 1])

RECURSIVE GroupThousands(_)
GroupThousands(d) ==
    IF Len(d) <= 3 THEN d
    ELSE GroupThousands(SubSeq(d, 1, Len(d) - 3))
             \o <<",">> \o SubSeq(d, Len(d) - 2, Len(d))

formatNumber(value) ==
    LET number == StripNonDigits(value)
    IN  IF number = <<>> THEN <<>>
        ELSE GroupThousands(IntDigits(parseInt(number).v \div SCALE))

-----------------------------------------------------------------------------
(* Metrics engine *)

\* parseInt(values.x.replace(/[^0-9]/g, ''))
ParseCurrency(s) == parseInt(StripNonDigits(s))

calculateAnnualDebtService(principal, rate, years) ==
    IF principal.k # "fin" \/ rate.k # "fin" \/ years.k # "fin" THEN NaN
    ELSE
    LET monthlyRate == (rate.v * (FINE \div SCALE)) \div 1200
        numberOfPayments == (years.v * 12) \div SCALE
        pw == PowFine(FINE + monthlyRate, numberOfPayments)
        factor == MulDiv(pw, monthlyRate, FINE)
        denom == pw - FINE
        monthlyPayment ==
            IF denom = 0
            THEN (IF principal.v = 0 \/ factor = 0 THEN NaN
                  ELSE [k |-> "inf", v |-> Sgn(principal.v) * Sgn(factor)])
            ELSE IF denom < 0 THEN Fin(MulDiv(-principal.v, factor, -denom))
            ELSE Fin(MulDiv(principal.v, factor, denom))
    IN  Mul(monthlyPayment, Num(12))

\* calculateRiskScore with the lower clamp left out
calculateRiskScoreNoFloor(v) ==
    LET revenue == ParseCurrency(v.revenue)
        s0 == Num(100)
        s1 == IF Gt(revenue, Num(2000000))
              THEN Sub(s0, Mul(Sub(revenue, Num(2000000)), Ratio(3, 2)))
              ELSE s0
        s2 == IF Gt(Div(ParseCurrency(v.ebitda), ParseCurrency(v.askingPrice)),
                    Ratio(3, 10))
              THEN Sub(s1, Num(10))
              ELSE s1
        s3 == CASE v.industry = "tech" -> Add(s2, Num(10))
                [] v.industry = "retail" -> Add(s2, Num(5))
                [] v.industry = "manufacturing" -> Sub(s2, Num(10))
                [] OTHER -> s2
        s4 == Sub(s3, Mul(ParseCurrency(v.recurringRevenue), Ratio(1, 2)))
        s5 == Sub(s4, MathMin(Mul(ParseCurrency(v.askingPrice), Num(2)), Num(20)))
    IN  MathMin(Num(100), s5)

calculateRiskScore(v) ==
    LET revenue == ParseCurrency(v.revenue)
        s0 == Num(100)
        s1 == IF Gt(revenue, Num(2000000))
              THEN Sub(s0, Mul(Sub(revenue, Num(2000000)), Ratio(3, 2)))
              ELSE s0
        s2 == IF Gt(Div(ParseCurrency(v.ebitda), ParseCurrency(v.askingPrice)),
                    Ratio(3, 10))
              THEN Sub(s1, Num(10))
              ELSE s1
        s3 == CASE v.industry = "tech" -> Add(s2, Num(10))
                [] v.industry = "retail" -> Add(s2, Num(5))
                [] v.industry = "manufacturing" -> Sub(s2, Num(10))
                [] OTHER -> s2
        s4 == Sub(s3, Mul(ParseCurrency(v.recurringRevenue), Ratio(1, 2)))
        s5 == Sub(s4, MathMin(Mul(ParseCurrency(v.askingPrice), Num(2)), Num(20)))
    IN  MathMax(Num(0), MathMin(Num(100), s5))

calculateGrowthPotential(v) ==
    LET historicalWeight == Ratio(4, 10)
        industryWeight == Ratio(3, 10)
        marketPositionWeight == Ratio(3, 10)
        marketScore == CASE v.industry = "tech" -> Num(10)
                         [] v.industry = "retail" -> Ratio(15, 2)
                         [] v.industry = "manufacturing" -> Num(5)
                         [] OTHER -> Num(0)
    IN  Add(Add(Mul(ParseCurrency(v.recurringRevenue), historicalWeight),
                Mul(ParseCurrency(v.recurringRevenue), industryWeight)),
            Mul(marketScore, marketPositionWeight))

calculateMarketScore(v) ==
    LET s0 == CASE v.industry = "tech" -> Num(40)
                [] v.industry = "retail" -> Num(30)
                [] v.industry = "manufacturing" -> Num(20)
                [] OTHER -> Num(0)
        s1 == Add(s0, MathMin(Mul(ParseCurrency(v.recurringRevenue), Num(2)),
                              Num(30)))
        s2 == Sub(s1, MathMin(Mul(ParseCurrency(v.askingPrice), Num(2)), Num(20)))
    IN  MathMax(Num(0), MathMin(Num(100), s2))

\* calculateCompetitiveThreat weighting the asking price by 2, as the sibling
\* scores do, instead of 5
calculateCompetitiveThreatTimesTwo(v) ==
    LET t0 == Num(0)
        t1 == Add(t0, Mul(ParseCurrency(v.askingPrice), Num(2)))
        t2 == CASE v.industry = "tech" -> Add(t1, Num(10))
                [] v.industry = "retail" -> Add(t1, Num(20))
                [] v.industry = "manufacturing" -> Add(t1, Num(30))
                [] OTHER -> t1
        t3 == Add(t2, Mul(ParseCurrency(v.recurringRevenue), Num(2)))
    IN  MathMin(Num(100), t3)

calculateCompetitiveThreat(v) ==
    LET t0 == Num(0)
        t1 == Add(t0, Mul(ParseCurrency(v.askingPrice), Num(5)))
        t2 == CASE v.industry = "tech" -> Add(t1, Num(10))
                [] v.industry = "retail" -> Add(t1, Num(20))
                [] v.industry = "manufacturing" -> Add(t1, Num(30))
                [] OTHER -> t1
        t3 == Add(t2, Mul(ParseCurrency(v.recurringRevenue), Num(2)))
    IN  MathMin(Num(100), t3)

projectedYears == 5

growthRates == <<Ratio(15, 100), Ratio(12, 100), Ratio(10, 100),
                 Ratio(8, 100), Ratio(6, 100)>>

\* the for loop of calculateProjectedCashFlows, from iteration `year` on
RECURSIVE ProjectionLoop(_, _, _, _, _)
ProjectionLoop(year, currentEbitda, cashFlows, totalDebtService, ownerSalary) ==
    IF ~(year < projectedYears) THEN cashFlows
    ELSE IF year > 0
    THEN LET grown == Mul(currentEbitda, Add(Num(1), growthRates[year]))
             freeCashFlow == Sub(Sub(grown, totalDebtService), ownerSalary)
         IN  ProjectionLoop(year + 1, grown,
                            Append(cashFlows, MathRound(freeCashFlow)),
                            totalDebtService, ownerSalary)
    ELSE ProjectionLoop(year + 1, currentEbitda, cashFlows,
                        totalDebtService, ownerSalary)

\* calculateProjectedCashFlows counting the seller note in the initial outflow
calculateProjectedCashFlowsNoteUpFront(v) ==
    LET askingPrice == ParseCurrency(v.askingPrice)
        downPaymentPercent == Div(parseInt(v.downPayment), Num(100))
        sellerNotePercent == Div(parseInt(v.sellerNote), Num(100))
        interestRate == parseInt(v.interestRate)
        loanTerm == parseInt(v.loanTerm)
        ebitda == ParseCurrency(v.ebitda)
        ownerSalary == ParseCurrency(v.ownerSalary)
        downPayment == Mul(askingPrice, downPaymentPercent)
        sellerNote == Mul(askingPrice, sellerNotePercent)
        bankLoan == Sub(Sub(askingPrice, downPayment), sellerNote)
        totalDebtService ==
            calculateAnnualDebtService(Add(bankLoan, sellerNote),
                                       interestRate, loanTerm)
    IN  ProjectionLoop(0, ebitda, <<Neg(Add(downPayment, sellerNote))>>,
                       totalDebtService, ownerSalary)

\* calculateProjectedCashFlows servicing the bank loan but not the seller note
calculateProjectedCashFlowsBankLoanOnly(v) ==
    LET askingPrice == ParseCurrency(v.askingPrice)
        downPaymentPercent == Div(parseInt(v.downPayment), Num(100))
        sellerNotePercent == Div(parseInt(v.sellerNote), Num(100))
        interestRate == parseInt(v.interestRate)
        loanTerm == parseInt(v.loanTerm)
        ebitda == ParseCurrency(v.ebitda)
        ownerSalary == ParseCurrency(v.ownerSalary)
        downPayment == Mul(askingPrice, downPaymentPercent)
        sellerNote == Mul(askingPrice, sellerNotePercent)
        bankLoan == Sub(Sub(askingPrice, downPayment), sellerNote)
        totalDebtService ==
            calculateAnnualDebtService(bankLoan,
                                       interestRate, loanTerm)
    IN  ProjectionLoop(0, ebitda, <<Neg(downPayment)>>,
                       totalDebtService, ownerSalary)

calculateProjectedCashFlows(v) ==
    LET askingPrice == ParseCurrency(v.askingPrice)
        downPaymentPercent == Div(parseInt(v.downPayment), Num(100))
        sellerNotePercent == Div(parseInt(v.sellerNote), Num(100))
        interestRate == parseInt(v.interestRate)
        loanTerm == parseInt(v.loanTerm)
        ebitda == ParseCurrency(v.ebitda)
        ownerSalary == ParseCurrency(v.ownerSalary)
        downPayment == Mul(askingPrice, downPaymentPercent)
        sellerNote == Mul(askingPrice, sellerNotePercent)
        bankLoan == Sub(Sub(askingPrice, downPayment), sellerNote)
        totalDebtService ==
            calculateAnnualDebtService(Add(bankLoan, sellerNote),
                                       interestRate, loanTerm)
    IN  ProjectionLoop(0, ebitda, <<Neg(downPayment)>>,
                       totalDebtService, ownerSalary)

\* cashFlows.reduce((npv, cashFlow, year) => ...) from 0-based index `year` on
RECURSIVE NPVReduce(_, _, _, _)
NPVReduce(cashFlows, discountRate, year, npv) ==
    IF year >= Len(cashFlows) THEN npv
    ELSE IF discountRate.k # "fin" THEN NaN
    ELSE LET pw == PowFine((SCALE + discountRate.v) * (FINE \div SCALE), year)
             cashFlow == cashFlows[year + 1]
             term == IF cashFlow.k # "fin" \/ pw = 0
                     THEN Div(cashFlow, Fin(pw))
                     ELSE IF pw < 0 THEN Fin(DivFine(-cashFlow.v, -pw))
                     ELSE Fin(DivFine(cashFlow.v, pw))
         IN  NPVReduce(cashFlows, discountRate, year + 1, Add(npv, term))

\* calculateNPV discounting from year 1 on, the initial outflow left out
calculateNPVSkipsYear0(cashFlows, discountRate) ==
    NPVReduce(cashFlows, discountRate, 1, Num(0))

calculateNPV(cashFlows, discountRate) ==
    NPVReduce(cashFlows, discountRate, 0, Num(0))

RECURSIVE SumSeq(_, _)
SumSeq(s, acc) == IF s = <<>> THEN acc ELSE SumSeq(Tail(s), Add(acc, Head(s)))

calculateIRR(cashFlows) ==
    LET totalInvestment == IF cashFlows = <<>> THEN NaN
                           ELSE MathAbs(cashFlows[1])
        averageReturn == Div(SumSeq(IF cashFlows = <<>> THEN <<>>
                                    ELSE Tail(cashFlows), Num(0)),
                             Num(Len(cashFlows) - 1))
    IN  Mul(Div(averageReturn, totalInvestment), Num(100))

\* LoanAmounts with the seller note not deducted from the bank loan
LoanAmountsNoteForgotten(askingPrice, downPaymentPercent, sellerNotePercent) ==
    LET downPayment == Mul(askingPrice, downPaymentPercent)
        sellerNote == Mul(askingPrice, sellerNotePercent)
        bankLoan == Sub(askingPrice, downPayment)
    IN  [downPayment |-> downPayment, sellerNote |-> sellerNote,
         bankLoan |-> bankLoan]

\* the loan amounts of calculateMetrics
LoanAmounts(askingPrice, downPaymentPercent, sellerNotePercent) ==
    LET downPayment == Mul(askingPrice, downPaymentPercent)
        sellerNote == Mul(askingPrice, sellerNotePercent)
        bankLoan == Sub(Sub(askingPrice, downPayment), sellerNote)
    IN  [downPayment |-> downPayment, sellerNote |-> sellerNote,
         bankLoan |-> bankLoan]

calculateMetrics(v) ==
    LET askingPrice == ParseCurrency(v.askingPrice)
        revenue == ParseCurrency(v.revenue)
        ebitda == ParseCurrency(v.ebitda)
        downPaymentPercent == Div(parseInt(v.downPayment), Num(100))
        sellerNotePercent == Div(parseInt(v.sellerNote), Num(100))
        interestRate == parseInt(v.interestRate)
        loanTerm == parseInt(v.loanTerm)
        loans == LoanAmounts(askingPrice, downPaymentPercent, sellerNotePercent)
        downPayment == loans.downPayment
        sellerNote == loans.sellerNote
        bankLoan == loans.bankLoan
        bankDebtService ==
            calculateAnnualDebtService(bankLoan, interestRate, loanTerm)
        sellerDebtService ==
            calculateAnnualDebtService(sellerNote, interestRate, loanTerm)
        totalDebtService == Add(bankDebtService, sellerDebtService)
        projectedCashFlows == calculateProjectedCashFlows(v)
    IN  [ebitdaMultiple |-> Div(askingPrice, ebitda),
         revenueMultiple |-> Div(askingPrice, revenue),
         priceToEarnings |-> Div(askingPrice, Mul(ebitda, Ratio(7, 10))),
         workingCapitalRatio |-> Num(0),
         debtServiceCoverageRatio |-> Div(ebitda, totalDebtService),
         returnOnInvestment |-> Mul(Div(ebitda, askingPrice), Num(100)),
         paybackPeriod |-> Div(askingPrice, ebitda),
         riskScore |-> calculateRiskScore(v),
         growthPotential |-> calculateGrowthPotential(v),
         marketPositionScore |-> calculateMarketScore(v),
         competitiveThreat |-> calculateCompetitiveThreat(v),
         projectedCashFlows |-> projectedCashFlows,
         netPresentValue |-> calculateNPV(projectedCashFlows, Ratio(15, 100)),
         internalRateOfReturn |-> calculateIRR(projectedCashFlows),
         totalDebtService |-> totalDebtService,
         bankLoan |-> bankLoan,
         sellerNote |-> sellerNote,
         revenue |-> v.revenue,
         recurringRevenue |-> v.recurringRevenue,
         topCustomerRevenue |-> v.topCustomerRevenue,
         yearsInBusiness |-> v.yearsInBusiness,
         industry |-> v.industry]

-----------------------------------------------------------------------------
(* Deal evaluator *)

NoArg == [k |-> "none", v |-> 0]

\* a finding: its fixed text and the number interpolated into it, if any
Finding(text, arg) == [text |-> text, arg |-> arg]

\* s || d for strings: the empty string is falsy
OrElse(s, d) == IF s = <<>> THEN d ELSE s

\* calculateDealScore with the two counts swapped
calculateDealScoreSwapped(metrics, strengthCount, weaknessCount) ==
    LET s0 == Num(70)
        dscr == metrics.debtServiceCoverageRatio
        s1 == IF Ge(dscr, Num(2)) THEN Add(s0, Num(10))
              ELSE IF Ge(dscr, Ratio(3, 2)) THEN Add(s0, Num(5))
              ELSE IF Less(dscr, Ratio(5, 4)) THEN Sub(s0, Num(10))
              ELSE s0
        s2 == IF Le(metrics.ebitdaMultiple, Num(4)) THEN Add(s1, Num(10))
              ELSE IF Ge(metrics.ebitdaMultiple, Num(7)) THEN Sub(s1, Num(10))
              ELSE s1
        s3 == Add(s2, Mul(Num(weaknessCount), Num(3)))
        s4 == Sub(s3, Mul(Num(strengthCount), Num(3)))
    IN  MathMin(Num(100), MathMax(Num(0), s4))

\* calculateDealScore without the middle coverage band: +10 from 1.5 on
calculateDealScoreNoMidBand(metrics, strengthCount, weaknessCount) ==
    LET s0 == Num(70)
        dscr == metrics.debtServiceCoverageRatio
        s1 == IF Ge(dscr, Ratio(3, 2)) THEN Add(s0, Num(10))
              ELSE IF Less(dscr, Ratio(5, 4)) THEN Sub(s0, Num(10))
              ELSE s0
        s2 == IF Le(metrics.ebitdaMultiple, Num(4)) THEN Add(s1, Num(10))
              ELSE IF Ge(metrics.ebitdaMultiple, Num(7)) THEN Sub(s1, Num(10))
              ELSE s1
        s3 == Add(s2, Mul(Num(strengthCount), Num(3)))
        s4 == Sub(s3, Mul(Num(weaknessCount), Num(3)))
    IN  MathMin(Num(100), MathMax(Num(0), s4))

calculateDealScore(metrics, strengthCount, weaknessCount) ==
    LET s0 == Num(70)
        dscr == metrics.debtServiceCoverageRatio
        s1 == IF Ge(dscr, Num(2)) THEN Add(s0, Num(10))
              ELSE IF Ge(dscr, Ratio(3, 2)) THEN Add(s0, Num(5))
              ELSE IF Less(dscr, Ratio(5, 4)) THEN Sub(s0, Num(10))
              ELSE s0
        s2 == IF Le(metrics.ebitdaMultiple, Num(4)) THEN Add(s1, Num(10))
              ELSE IF Ge(metrics.ebitdaMultiple, Num(7)) THEN Sub(s1, Num(10))
              ELSE s1
        s3 == Add(s2, Mul(Num(strengthCount), Num(3)))
        s4 == Sub(s3, Mul(Num(weaknessCount), Num(3)))
    IN  MathMin(Num(100), MathMax(Num(0), s4))

\* the tier chain with a strict first comparison
RecommendStrict(score) ==
    IF Gt(score, Num(85))
    THEN [recommendation |-> "Strong Buy", color |-> "text-green-500"]
    ELSE IF Ge(score, Num(70))
    THEN [recommendation |-> "Buy", color |-> "text-green-400"]
    ELSE IF Ge(score, Num(50))
    THEN [recommendation |-> "Neutral", color |-> "text-yellow-500"]
    ELSE IF Ge(score, Num(30))
    THEN [recommendation |-> "Caution", color |-> "text-orange-500"]
    ELSE [recommendation |-> "Pass", color |-> "text-red-500"]

\* the tier chain without its final else: nothing is assigned below 30
RecommendNoPass(score) ==
    IF Ge(score, Num(85))
    THEN [recommendation |-> "Strong Buy", color |-> "text-green-500"]
    ELSE IF Ge(score, Num(70))
    THEN [recommendation |-> "Buy", color |-> "text-green-400"]
    ELSE IF Ge(score, Num(50))
    THEN [recommendation |-> "Neutral", color |-> "text-yellow-500"]
    ELSE IF Ge(score, Num(30))
    THEN [recommendation |-> "Caution", color |-> "text-orange-500"]
    ELSE [recommendation |-> "undefined", color |-> "undefined"]

\* the if / else-if chain of analyzeDeal that picks the tier and its colour
Recommend(score) ==
    IF Ge(score, Num(85))
    THEN [recommendation |-> "Strong Buy", color |-> "text-green-500"]
    ELSE IF Ge(score, Num(70))
    THEN [recommendation |-> "Buy", color |-> "text-green-400"]
    ELSE IF Ge(score, Num(50))
    THEN [recommendation |-> "Neutral", color |-> "text-yellow-500"]
    ELSE IF Ge(score, Num(30))
    THEN [recommendation |-> "Caution", color |-> "text-orange-500"]
    ELSE [recommendation |-> "Pass", color |-> "text-red-500"]

\* IndustryFindings without the seasonal-revenue weakness
IndustryFindingsNoSeasonal(industry) ==
    IF industry = "services"
    THEN [strengths |-> <<>>,
          weaknesses |-> <<>>,
          opportunities |->
              <<Finding("Growing demand for HVAC services", NoArg),
                Finding("Energy efficiency upgrade opportunities", NoArg)>>,
          threats |-> <<Finding("Labor market challenges", NoArg),
                        Finding("Equipment supply chain risks", NoArg)>>]
    ELSE [strengths |-> <<>>, weaknesses |-> <<>>,
          opportunities |-> <<>>, threats |-> <<>>]

\* IndustryFindings with a strength added for the services industry
IndustryFindingsServicesStrength(industry) ==
    IF industry = "services"
    THEN [strengths |-> <<Finding("Essential service", NoArg)>>,
          weaknesses |-> <<Finding("Seasonal revenue fluctuations", NoArg)>>,
          opportunities |->
              <<Finding("Growing demand for HVAC services", NoArg),
                Finding("Energy efficiency upgrade opportunities", NoArg)>>,
          threats |-> <<Finding("Labor market challenges", NoArg),
                        Finding("Equipment supply chain risks", NoArg)>>]
    ELSE [strengths |-> <<>>, weaknesses |-> <<>>,
          opportunities |-> <<>>, threats |-> <<>>]

\* the findings analyzeDeal pushes for industry === 'services'
IndustryFindings(industry) ==
    IF industry = "services"
    THEN [strengths |-> <<>>,
          weaknesses |-> <<Finding("Seasonal revenue fluctuations", NoArg)>>,
          opportunities |->
              <<Finding("Growing demand for HVAC services", NoArg),
                Finding("Energy efficiency upgrade opportunities", NoArg)>>,
          threats |-> <<Finding("Labor market challenges", NoArg),
                        Finding("Equipment supply chain risks", NoArg)>>]
    ELSE [strengths |-> <<>>, weaknesses |-> <<>>,
          opportunities |-> <<>>, threats |-> <<>>]

\* analyzeDeal with the tight-coverage weakness for every ratio below 1.5
analyzeDealTightBelowStrong(metrics) ==
    LET dscr == metrics.debtServiceCoverageRatio
        \* EBITDA multiple
        st1 == IF Le(metrics.ebitdaMultiple, Num(4))
               THEN <<Finding("Below market valuation (EBITDA multiple < 4x)",
                              NoArg)>>
               ELSE <<>>
        wk1 == IF ~Le(metrics.ebitdaMultiple, Num(4))
                  /\ Ge(metrics.ebitdaMultiple, Num(7))
               THEN <<Finding("Premium valuation (EBITDA multiple > 7x)",
                              NoArg)>>
               ELSE <<>>
        \* always added
        wk2 == wk1 \o <<Finding("Technology systems could be modernized", NoArg),
                        Finding("Marketing strategy needs enhancement", NoArg)>>
        \* debt coverage
        st2 == IF Ge(dscr, Ratio(3, 2))
               THEN Append(st1, Finding("Strong debt coverage", ToFixed(dscr, 1)))
               ELSE st1
        wk3 == IF ~Ge(dscr, Ratio(3, 2)) /\ Less(dscr, Ratio(3, 2))
               THEN Append(wk2, Finding("Tight debt coverage", ToFixed(dscr, 1)))
               ELSE wk2
        \* recurring revenue
        recurringRevenue ==
            parseInt(OrElse(StripNonDigits(metrics.recurringRevenue), <<"0">>))
        totalRevenue ==
            parseInt(OrElse(StripNonDigits(metrics.revenue), <<"1">>))
        recurringRevenuePercent ==
            Mul(Div(recurringRevenue, totalRevenue), Num(100))
        highRecurring == Ge(recurringRevenuePercent, Num(30))
        st3 == IF highRecurring
               THEN Append(st2, Finding("High recurring revenue",
                                        ToFixed(recurringRevenuePercent, SCALE)))
               ELSE st2
        wk4 == IF highRecurring THEN wk3
               ELSE Append(wk3, Finding("Low recurring revenue",
                                        ToFixed(recurringRevenuePercent, SCALE)))
        op1 == IF highRecurring THEN <<>>
               ELSE <<Finding("Opportunity to increase service contracts",
                              NoArg)>>
        \* customer concentration
        topCustomerRevenue ==
            parseInt(OrElse(StripNonDigits(metrics.topCustomerRevenue), <<"0">>))
        customerConcentration ==
            Mul(Div(topCustomerRevenue, totalRevenue), Num(100))
        concentrated == Gt(customerConcentration, Num(20))
        th1 == IF concentrated
               THEN <<Finding("High customer concentration",
                              ToFixed(customerConcentration, SCALE))>>
               ELSE <<>>
        wk5 == IF concentrated
               THEN Append(wk4, Finding("Customer diversification needed", NoArg))
               ELSE wk4
        st4 == IF concentrated THEN st3
               ELSE Append(st3, Finding("Well-diversified customer base", NoArg))
        \* business maturity
        yearsInBusiness == parseInt(OrElse(metrics.yearsInBusiness, <<"0">>))
        established == Ge(yearsInBusiness, Num(10))
        st5 == IF established
               THEN Append(st4, Finding("Established business", yearsInBusiness))
               ELSE st4
        wk6 == IF established THEN wk5
               ELSE Append(wk5, Finding("Limited operating history",
                                        yearsInBusiness))
        op2 == IF established THEN op1
               ELSE Append(op1, Finding("Room for operational improvements",
                                        NoArg))
        \* industry specific
        ind == IndustryFindings(metrics.industry)
        strengths == st5 \o ind.strengths
        weaknesses == wk6 \o ind.weaknesses
        opportunities == op2 \o ind.opportunities
        threats == th1 \o ind.threats
        score == calculateDealScore(metrics, Len(strengths), Len(weaknesses))
        tier == Recommend(score)
    IN  [recommendation |-> tier.recommendation,
         color |-> tier.color,
         strengths |-> strengths,
         weaknesses |-> weaknesses,
         opportunities |-> opportunities,
         threats |-> threats]

analyzeDeal(metrics) ==
    LET dscr == metrics.debtServiceCoverageRatio
        \* EBITDA multiple
        st1 == IF Le(metrics.ebitdaMultiple, Num(4))
               THEN <<Finding("Below market valuation (EBITDA multiple < 4x)",
                              NoArg)>>
               ELSE <<>>
        wk1 == IF ~Le(metrics.ebitdaMultiple, Num(4))
                  /\ Ge(metrics.ebitdaMultiple, Num(7))
               THEN <<Finding("Premium valuation (EBITDA multiple > 7x)",
                              NoArg)>>
               ELSE <<>>
        \* always added
        wk2 == wk1 \o <<Finding("Technology systems could be modernized", NoArg),
                        Finding("Marketing strategy needs enhancement", NoArg)>>
        \* debt coverage
        st2 == IF Ge(dscr, Ratio(3, 2))
               THEN Append(st1, Finding("Strong debt coverage", ToFixed(dscr, 1)))
               ELSE st1
        wk3 == IF ~Ge(dscr, Ratio(3, 2)) /\ Less(dscr, Ratio(5, 4))
               THEN Append(wk2, Finding("Tight debt coverage", ToFixed(dscr, 1)))
               ELSE wk2
        \* recurring revenue
        recurringRevenue ==
            parseInt(OrElse(StripNonDigits(metrics.recurringRevenue), <<"0">>))
        totalRevenue ==
            parseInt(OrElse(StripNonDigits(metrics.revenue), <<"1">>))
        recurringRevenuePercent ==
            Mul(Div(recurringRevenue, totalRevenue), Num(100))
        highRecurring == Ge(recurringRevenuePercent, Num(30))
        st3 == IF highRecurring
               THEN Append(st2, Finding("High recurring revenue",
                                        ToFixed(recurringRevenuePercent, SCALE)))
               ELSE st2
        wk4 == IF highRecurring THEN wk3
               ELSE Append(wk3, Finding("Low recurring revenue",
                                        ToFixed(recurringRevenuePercent, SCALE)))
        op1 == IF highRecurring THEN <<>>
               ELSE <<Finding("Opportunity to increase service contracts",
                              NoArg)>>
        \* customer concentration
        topCustomerRevenue ==
            parseInt(OrElse(StripNonDigits(metrics.topCustomerRevenue), <<"0">>))
        customerConcentration ==
            Mul(Div(topCustomerRevenue, totalRevenue), Num(100))
        concentrated == Gt(customerConcentration, Num(20))
        th1 == IF concentrated
               THEN <<Finding("High customer concentration",
                              ToFixed(customerConcentration, SCALE))>>
               ELSE <<>>
        wk5 == IF concentrated
               THEN Append(wk4, Finding("Customer diversification needed", NoArg))
               ELSE wk4
        st4 == IF concentrated THEN st3
               ELSE Append(st3, Finding("Well-diversified customer base", NoArg))
        \* business maturity
        yearsInBusiness == parseInt(OrElse(metrics.yearsInBusiness, <<"0">>))
        established == Ge(yearsInBusiness, Num(10))
        st5 == IF established
               THEN Append(st4, Finding("Established business", yearsInBusiness))
               ELSE st4
        wk6 == IF established THEN wk5
               ELSE Append(wk5, Finding("Limited operating history",
                                        yearsInBusiness))
        op2 == IF established THEN op1
               ELSE Append(op1, Finding("Room for operational improvements",
                                        NoArg))
        \* industry specific
        ind == IndustryFindings(metrics.industry)
        strengths == st5 \o ind.strengths
        weaknesses == wk6 \o ind.weaknesses
        opportunities == op2 \o ind.opportunities
        threats == th1 \o ind.threats
        score == calculateDealScore(metrics, Len(strengths), Len(weaknesses))
        tier == Recommend(score)
    IN  [recommendation |-> tier.recommendation,
         color |-> tier.color,
         strengths |-> strengths,
         weaknesses |-> weaknesses,
         opportunities |-> opportunities,
         threats |-> threats]

-----------------------------------------------------------------------------
(* Form state and inputs *)

Null == <<>>

CurrencyFields == {"askingPrice", "revenue", "ebitda", "ownerSalary",
                   "recurringRevenue", "topCustomerRevenue"}

TextFields == {"yearsInBusiness", "downPayment", "sellerNote",
               "interestRate", "loanTerm"}

Industries == {"tech", "services", "retail", "manufacturing",
               "construction", "healthcare", "food", "other"}

initialValues ==
    [askingPrice |-> <<"2", ",", "5", "0", "0", ",", "0", "0", "0">>,
     revenue |-> <<"3", ",", "0", "0", "0", ",", "0", "0", "0">>,
     ebitda |-> <<"4", "5", "0", ",", "0", "0", "0">>,
     ownerSalary |-> <<"1", "5", "0", ",", "0", "0", "0">>,
     recurringRevenue |-> <<"9", "0", "0", ",", "0", "0", "0">>,
     topCustomerRevenue |-> <<"3", "0", "0", ",", "0", "0", "0">>,
     yearsInBusiness |-> <<"1", "5">>,
     downPayment |-> <<"5">>,
     sellerNote |-> <<"5">>,
     interestRate |-> <<"1", "0", ".", "5">>,
     loanTerm |-> <<"1", "0">>,
     industry |-> "services"]

\* validationSchema: every field is a required (non-empty) string
Valid(v) ==
    /\ \A f \in CurrencyFields \cup TextFields : v[f] # <<>>
    /\ v.industry # ""

\* the form values the pipeline is checked on: a small business, a large one
\* and the financing terms, combined
SmallBusiness ==
    [askingPrice : {<<"1", "9">>, <<"1", ",", "0", "0", "0">>},
     revenue : {<<"1", ",", "0", "0", "0">>},
     ebitda : {<<"2", "5", "0">>, <<"2", "0", "0">>, <<"0">>},
     ownerSalary : {<<"1", "0", "0">>},
     recurringRevenue : {<<"3", "0", "0">>, <<"7">>, <<"0">>},
     topCustomerRevenue : {<<"9", "0", "0">>, <<"1", "0", "0">>}]

LargeBusiness ==
    [askingPrice : {<<"2", ",", "5", "0", "0", ",", "0", "0", "0">>},
     revenue : {<<"3", ",", "0", "0", "0", ",", "0", "0", "0">>},
     ebitda : {<<"9", "0", "0", ",", "0", "0", "0">>, <<"4", "5", "0", ",", "0", "0", "0">>},
     ownerSalary : {<<"1", "5", "0", ",", "0", "0", "0">>},
     recurringRevenue : {<<"9", "0", "0", ",", "0", "0", "0">>, <<"0">>},
     topCustomerRevenue : {<<"9", "0", "0", ",", "0", "0", "0">>, <<"3", "0", "0", ",", "0", "0", "0">>}]

DealTerms ==
    [yearsInBusiness : {<<"1", "5">>, <<"3">>},
     downPayment : {<<"5">>, <<"6", "0">>},
     sellerNote : {<<"5">>, <<"5", "0">>},
     interestRate : {<<"1", "0", ".", "5">>, <<"0">>},
     loanTerm : {<<"1", "0">>},
     industry : {"services", "tech", "retail", "manufacturing", "other"}]

FormInputs ==
    {[askingPrice |-> b.askingPrice,
      revenue |-> b.revenue,
      ebitda |-> b.ebitda,
      ownerSalary |-> b.ownerSalary,
      recurringRevenue |-> b.recurringRevenue,
      topCustomerRevenue |-> b.topCustomerRevenue,
      yearsInBusiness |-> t.yearsInBusiness,
      downPayment |-> t.downPayment,
      sellerNote |-> t.sellerNote,
      interestRate |-> t.interestRate,
      loanTerm |-> t.loanTerm,
      industry |-> t.industry] :
        b \in SmallBusiness \cup LargeBusiness, t \in DealTerms}

\* edge cases of the financing split: a zero asking price, percentages that
\* sum to exactly 100 and above it, a negative percentage, a loan term of 0
EdgeInputs ==
    {[initialValues EXCEPT !.askingPrice = <<"0">>],
     [initialValues EXCEPT !.askingPrice = <<"0">>, !.downPayment = <<"6", "0">>,
                           !.sellerNote = <<"5", "0">>],
     [initialValues EXCEPT !.downPayment = <<"6", "0">>, !.sellerNote = <<"4", "0">>],
     [initialValues EXCEPT !.askingPrice = <<"1", ",", "0", "0", "0">>, !.downPayment = <<"7">>,
                           !.sellerNote = <<"9", "3">>, !.industry = "other"],
     [initialValues EXCEPT !.downPayment = <<"-", "5">>],
     [initialValues EXCEPT !.loanTerm = <<"0">>],
     [initialValues EXCEPT !.loanTerm = <<"0">>, !.downPayment = <<"6", "0">>,
                           !.sellerNote = <<"5", "0">>]}

\* asking prices on and just below 20 dollars, without recurring revenue
ThresholdInputs ==
    {[initialValues EXCEPT !.askingPrice = p,
                           !.revenue = <<"1", ",", "0", "0", "0">>,
                           !.ebitda = <<"2", "5", "0">>,
                           !.ownerSalary = <<"1", "0", "0">>,
                           !.recurringRevenue = <<"0">>,
                           !.topCustomerRevenue = <<"1", "0", "0">>,
                           !.industry = i] :
        p \in {<<"1", "9">>, <<"2", "0">>, <<"2", "1">>},
        i \in {"services", "manufacturing", "healthcare"}}

\* what the user types into the form in the interactive specification
TypedCurrency == {<<"2", "5", "0", "0", "0", "0", "0">>, <<"$", "1", ",", "0", "0", "0">>, <<>>}

TypedIndustry == {"services", "tech"}

TypedYears == {<<"1", "5">>, <<"3">>}

MaxSubmissions == 3

-----------------------------------------------------------------------------
(* BusinessCalculator *)

handleNumberChange(name, value) ==
    /\ values' = [values EXCEPT ![name] = formatNumber(value)]
    /\ UNCHANGED <<results, analysis, log, npvCall, scoreCall>>

\* Formik's own change handler of the fields without onChange
handleChange(name, value) ==
    /\ values' = [values EXCEPT ![name] = value]
    /\ UNCHANGED <<results, analysis, log, npvCall, scoreCall>>

\* onSubmit analysing the results state, which during the handler still holds
\* the metrics of the previous submission, instead of the new metrics
onSubmitStaleResults ==
    /\ Valid(values)
    /\ Len(log) < MaxSubmissions
    /\ LET metrics == calculateMetrics(values)
           deal == analyzeDeal(IF results = Null THEN metrics ELSE results[1])
       IN  /\ results' = <<metrics>>
           /\ analysis' = <<deal>>
           /\ log' = Append(log, [values |-> values, results |-> metrics,
                                  analysis |-> analyzeDeal(metrics)])
    /\ UNCHANGED <<values, npvCall, scoreCall>>

\* onSubmit with the four finding lists kept across calls instead of created
\* afresh by each analyzeDeal
onSubmitSharedLists ==
    /\ Valid(values)
    /\ Len(log) < MaxSubmissions
    /\ LET metrics == calculateMetrics(values)
           fresh == analyzeDeal(metrics)
           deal == IF analysis = Null THEN fresh
                   ELSE [fresh EXCEPT
                           !.strengths = analysis[1].strengths \o @,
                           !.weaknesses = analysis[1].weaknesses \o @,
                           !.opportunities = analysis[1].opportunities \o @,
                           !.threats = analysis[1].threats \o @]
       IN  /\ results' = <<metrics>>
           /\ analysis' = <<deal>>
           /\ log' = Append(log, [values |-> values, results |-> metrics,
                                  analysis |-> deal])
    /\ UNCHANGED <<values, npvCall, scoreCall>>

onSubmit ==
    /\ Valid(values)
    /\ Len(log) < MaxSubmissions
    /\ LET metrics == calculateMetrics(values)
           deal == analyzeDeal(metrics)
       IN  /\ results' = <<metrics>>
           /\ analysis' = <<deal>>
           /\ log' = Append(log, [values |-> values, results |-> metrics,
                                  analysis |-> deal])
    /\ UNCHANGED <<values, npvCall, scoreCall>>

IdleNPV == [cashFlows |-> <<>>, discountRate |-> Num(0), npv |-> Num(0)]

IdleScore == [debtServiceCoverageRatio |-> NaN, ebitdaMultiple |-> NaN,
              strengthCount |-> 0, weaknessCount |-> 0, score |-> Num(0),
              recommendation |-> "", color |-> ""]

\* one submission pipeline per initial form input
Init ==
    /\ values \in FormInputs \cup EdgeInputs \cup ThresholdInputs
    /\ results = Null
    /\ analysis = Null
    /\ log = <<>>
    /\ npvCall = IdleNPV
    /\ scoreCall = IdleScore

Next == onSubmit

Spec == Init /\ [][Next]_vars

\* the component as the user drives it: edits and submissions interleaved
InitForm ==
    /\ values = initialValues
    /\ results = Null
    /\ analysis = Null
    /\ log = <<>>
    /\ npvCall = IdleNPV
    /\ scoreCall = IdleScore

NextForm ==
    \/ \E value \in TypedCurrency : handleNumberChange("askingPrice", value)
    \/ \E value \in TypedYears : handleChange("yearsInBusiness", value)
    \/ \E value \in TypedIndustry : handleChange("industry", value)
    \/ onSubmit

SpecForm == InitForm /\ [][NextForm]_vars

-----------------------------------------------------------------------------
(* calculateNPV called on its own *)

MaxCashFlows == 3

CashFlowInputs == {Num(-125000), Fin(-95), Num(0), Num(52970)}

DiscountRates == {Num(0), Ratio(15, 100)}

NPVCallOf(cashFlows, discountRate) ==
    [cashFlows |-> cashFlows, discountRate |-> discountRate,
     npv |-> calculateNPV(cashFlows, discountRate)]

\* the same call with one more year of cash flow
CallNPV(cashFlow) ==
    /\ Len(npvCall.cashFlows) < MaxCashFlows
    /\ npvCall' = NPVCallOf(Append(npvCall.cashFlows, cashFlow),
                            npvCall.discountRate)
    /\ UNCHANGED <<values, results, analysis, log, scoreCall>>

InitNPV ==
    /\ values = initialValues
    /\ results = Null
    /\ analysis = Null
    /\ log = <<>>
    /\ \E r \in DiscountRates : npvCall = NPVCallOf(<<>>, r)
    /\ scoreCall = IdleScore

NextNPV == \E cashFlow \in CashFlowInputs : CallNPV(cashFlow)

SpecNPV == InitNPV /\ [][NextNPV]_vars

-----------------------------------------------------------------------------
(* calculateDealScore and the tier chosen from it, called on their own *)

MaxFindings == 20

CoverageInputs == {NaN, PosInf, Num(1), Ratio(124, 100), Ratio(5, 4),
                   Ratio(149, 100), Ratio(3, 2), Ratio(199, 100), Num(2)}

MultipleInputs == {NaN, PosInf, Num(3), Num(4), Ratio(401, 100),
                   Ratio(699, 100), Num(7)}

ScoreCallOf(dscr, multiple, strengthCount, weaknessCount) ==
    LET score == calculateDealScore(
                     [debtServiceCoverageRatio |-> dscr,
                      ebitdaMultiple |-> multiple],
                     strengthCount, weaknessCount)
        tier == Recommend(score)
    IN  [debtServiceCoverageRatio |-> dscr, ebitdaMultiple |-> multiple,
         strengthCount |-> strengthCount, weaknessCount |-> weaknessCount,
         score |-> score,
         recommendation |-> tier.recommendation, color |-> tier.color]

\* the same metrics scored with one more strength
AddStrength ==
    /\ scoreCall.strengthCount < MaxFindings
    /\ scoreCall' = ScoreCallOf(scoreCall.debtServiceCoverageRatio,
                                scoreCall.ebitdaMultiple,
                                scoreCall.strengthCount + 1,
                                scoreCall.weaknessCount)
    /\ UNCHANGED <<values, results, analysis, log, npvCall>>

\* the same metrics scored with one more weakness
AddWeakness ==
    /\ scoreCall.weaknessCount < MaxFindings
    /\ scoreCall' = ScoreCallOf(scoreCall.debtServiceCoverageRatio,
                                scoreCall.ebitdaMultiple,
                                scoreCall.strengthCount,
                                scoreCall.weaknessCount + 1)
    /\ UNCHANGED <<values, results, analysis, log, npvCall>>

InitScore ==
    /\ values = initialValues
    /\ results = Null
    /\ analysis = Null
    /\ log = <<>>
    /\ npvCall = IdleNPV
    /\ \E d \in CoverageInputs, m \in MultipleInputs :
           scoreCall = ScoreCallOf(d, m, 0, 0)

NextScore == AddStrength \/ AddWeakness

SpecScore == InitScore /\ [][NextScore]_vars

-----------------------------------------------------------------------------
(* analyzeDeal called on its own *)

\* the metrics of the default form values, the other inputs vary around them
BaseMetrics == calculateMetrics(initialValues)

RecurringInputs == {<<"9", "0", "0", ",", "0", "0", "0">>,
                    <<"8", "9", "9", ",", "9", "9", "9">>, <<>>}

TopCustomerInputs == {<<"6", "0", "0", ",", "0", "0", "0">>,
                      <<"9", "0", "0", ",", "0", "0", "0">>}

YearsInputs == {<<"1", "0">>, <<"9">>, <<>>}

IndustryInputs == {"services", "other"}

MetricsInputs ==
    {[BaseMetrics EXCEPT !.debtServiceCoverageRatio = d,
                         !.ebitdaMultiple = m,
                         !.recurringRevenue = r,
                         !.topCustomerRevenue = t,
                         !.yearsInBusiness = y,
                         !.industry = i] :
        d \in CoverageInputs, m \in MultipleInputs, r \in RecurringInputs,
        t \in TopCustomerInputs, y \in YearsInputs, i \in IndustryInputs}

\* one call of analyzeDeal, its argument and its result kept as the component
\* keeps them
Analyze(metrics) ==
    /\ analysis = Null
    /\ results' = <<metrics>>
    /\ analysis' = <<analyzeDeal(metrics)>>
    /\ UNCHANGED <<values, log, npvCall, scoreCall>>

InitAnalyze ==
    /\ values = initialValues
    /\ results = Null
    /\ analysis = Null
    /\ log = <<>>
    /\ npvCall = IdleNPV
    /\ scoreCall = IdleScore

NextAnalyze == \E metrics \in MetricsInputs : Analyze(metrics)

SpecAnalyze == InitAnalyze /\ [][NextAnalyze]_vars

-----------------------------------------------------------------------------
(* calculateMetrics and analyzeDeal called without the form's validation *)

\* a weak small business; the degenerate inputs vary around it
WeakBusiness ==
    [askingPrice |-> <<"1", ",", "0", "0", "0">>,
     revenue |-> <<"1", ",", "0", "0", "0">>,
     ebitda |-> <<"2", "5", "0">>,
     ownerSalary |-> <<"1", "0", "0">>,
     recurringRevenue |-> <<"0">>,
     topCustomerRevenue |-> <<"9", "0", "0">>,
     yearsInBusiness |-> <<"3">>,
     downPayment |-> <<"5">>,
     sellerNote |-> <<"5">>,
     interestRate |-> <<"1", "0", ".", "5">>,
     loanTerm |-> <<"1", "0">>,
     industry |-> "services"]

\* zero, empty and non-numeric strings
DegenerateInputs ==
    {[WeakBusiness EXCEPT !.askingPrice = a, !.revenue = r, !.ebitda = e,
                          !.downPayment = d, !.interestRate = i,
                          !.loanTerm = t, !.yearsInBusiness = y] :
        a \in {WeakBusiness.askingPrice, <<"0">>, <<>>},
        r \in {WeakBusiness.revenue, <<"0">>, <<>>},
        e \in {WeakBusiness.ebitda, <<"0">>, <<>>, <<"a", "b", "c">>},
        d \in {WeakBusiness.downPayment, <<"0">>, <<>>},
        i \in {WeakBusiness.interestRate, <<"0">>, <<>>, <<"a", "b", "c">>},
        t \in {WeakBusiness.loanTerm, <<"0">>},
        y \in {WeakBusiness.yearsInBusiness, <<>>}}

\* the two calls of onSubmit on a record the form did not validate
Evaluate ==
    /\ log = <<>>
    /\ LET metrics == calculateMetrics(values)
           deal == analyzeDeal(metrics)
       IN  /\ results' = <<metrics>>
           /\ analysis' = <<deal>>
           /\ log' = Append(log, [values |-> values, results |-> metrics,
                                  analysis |-> deal])
    /\ UNCHANGED <<values, npvCall, scoreCall>>

InitEngine ==
    /\ values \in DegenerateInputs
    /\ results = Null
    /\ analysis = Null
    /\ log = <<>>
    /\ npvCall = IdleNPV
    /\ scoreCall = IdleScore

NextEngine == Evaluate

SpecEngine == InitEngine /\ [][NextEngine]_vars

-----------------------------------------------------------------------------
(* Properties *)

\* the form values of the most recent submission
Submitted == log[Len(log)].values

\* the integer a numeric form field parses to
IntOf(x) == x.v \div SCALE

InRange0To100(x) == x.k = "fin" /\ 0 <= x.v /\ x.v <= 100 * SCALE

FindingCount(a) ==
    Len(a.strengths) + Len(a.weaknesses) + Len(a.opportunities) + Len(a.threats)

\* C1: for every input record the projectedCashFlows sequence stored in the
\* metrics has exactly 6 entries, year 0 through year 5.
C1_SixCashFlows ==
    results # Null => Len(results[1].projectedCashFlows) = 6

\* C2 (as stated): with industry "services" analyzeDeal yields exactly 4
\* findings more, over the four lists together, than for the same metrics
\* under any other industry.
C2_ServicesAddsFour ==
    (analysis # Null /\ results[1].industry = "services") =>
        \A i \in Industries \ {"services"} :
            FindingCount(analysis[1])
              = FindingCount(analyzeDeal([results[1] EXCEPT !.industry = i])) + 4

\* C2 (amended): with industry "services" analyzeDeal yields exactly 5
\* findings more than for the same metrics under any other industry: two
\* opportunities, two threats and one weakness, and no strength.
C2_ServicesAddsFive ==
    (analysis # Null /\ results[1].industry = "services") =>
        \A i \in Industries \ {"services"} :
            LET other == analyzeDeal([results[1] EXCEPT !.industry = i])
            IN  /\ FindingCount(analysis[1]) = FindingCount(other) + 5
                /\ Len(analysis[1].opportunities) = Len(other.opportunities) + 2
                /\ Len(analysis[1].threats) = Len(other.threats) + 2
                /\ Len(analysis[1].weaknesses) = Len(other.weaknesses) + 1
                /\ Len(analysis[1].strengths) = Len(other.strengths)

C2_ServicesSubmitted ==
    analysis # Null /\ results[1].industry = "services"

\* C3: when askingPrice, revenue, ebitda and recurringRevenue are non-negative
\* numbers, riskScore, marketPositionScore and competitiveThreat each lie in
\* the closed range [0, 100], whatever the industry.
C3_ScoresInRange ==
    (/\ results # Null
     /\ \A f \in {"askingPrice", "revenue", "ebitda", "recurringRevenue"} :
            LET n == ParseCurrency(Submitted[f]) IN n.k = "fin" /\ n.v >= 0)
    => /\ InRange0To100(results[1].riskScore)
       /\ InRange0To100(results[1].marketPositionScore)
       /\ InRange0To100(results[1].competitiveThreat)

\* a submission whose risk score the lower clamp raised to 0, whose
\* competitive threat the cap cut to 100, and whose market score is inside
C3_ClampsAtWork ==
    /\ results # Null
    /\ ParseCurrency(Submitted.revenue).v > 2000000 * SCALE
    /\ results[1].riskScore = Num(0)
    /\ results[1].competitiveThreat = Num(100)
    /\ results[1].marketPositionScore.v > 0
    /\ results[1].marketPositionScore.v < 100 * SCALE

\* C4: the growthPotential of the metrics lies in [0, 100] for every
\* non-negative recurringRevenue and every industry.
C4_GrowthInRange ==
    results # Null => InRange0To100(results[1].growthPotential)

\* C5: element 0 of projectedCashFlows is the negated down payment,
\* -(askingPrice x downPaymentPct / 100): a function of the asking price and
\* the down-payment percentage alone.
C5_YearZeroIsDownPayment ==
    results # Null =>
        LET price == IntOf(ParseCurrency(Submitted.askingPrice))
            pct == IntOf(parseInt(Submitted.downPayment))
        IN  results[1].projectedCashFlows[1]
              = Fin(-MulDiv(price * SCALE, pct, 100))

C5_DownPaymentPaid ==
    /\ results # Null
    /\ results[1].projectedCashFlows[1].v < 0
    /\ IntOf(parseInt(Submitted.sellerNote)) > 0

\* C6: after any sequence of submissions, two submissions with identical
\* form values produced identical metrics and identical analyses.
C6_SameInputSameOutput ==
    \A i, j \in 1..Len(log) :
        log[i].values = log[j].values =>
            /\ log[i].results = log[j].results
            /\ log[i].analysis = log[j].analysis

\* the same input submitted again after a different one
C6_ResubmittedAfterAnother ==
    \E i, j, k \in 1..Len(log) :
        /\ i < j /\ j < k
        /\ log[i].values = log[k].values
        /\ log[j].values # log[i].values
        /\ FindingCount(log[j].analysis) # FindingCount(log[i].analysis)


TierRank(recommendation) ==
    CASE recommendation = "Pass" -> 0
      [] recommendation = "Caution" -> 1
      [] recommendation = "Neutral" -> 2
      [] recommendation = "Buy" -> 3
      [] recommendation = "Strong Buy" -> 4

\* C7: for fixed debtServiceCoverageRatio, ebitdaMultiple and weaknessCount,
\* scoring the same deal with more strengths never lowers the score of
\* calculateDealScore, nor the recommendation tier chosen from it.
C7_MoreStrengthsNeverLower ==
    [][(/\ scoreCall'.debtServiceCoverageRatio = scoreCall.debtServiceCoverageRatio
        /\ scoreCall'.ebitdaMultiple = scoreCall.ebitdaMultiple
        /\ scoreCall'.weaknessCount = scoreCall.weaknessCount
        /\ scoreCall'.strengthCount >= scoreCall.strengthCount)
       => (/\ Le(scoreCall.score, scoreCall'.score)
           /\ TierRank(scoreCall.recommendation)
                <= TierRank(scoreCall'.recommendation))]_vars

\* strengths were added to a deal with weaknesses until the tier rose to the top
C7_StrengthsRaisedTier ==
    /\ scoreCall.strengthCount >= 2
    /\ scoreCall.weaknessCount >= 2
    /\ scoreCall.recommendation = "Strong Buy"
    /\ Recommend(calculateDealScore(scoreCall, 0, scoreCall.weaknessCount))
           .recommendation # "Strong Buy"

TierColor(recommendation) ==
    CASE recommendation = "Strong Buy" -> "text-green-500"
      [] recommendation = "Buy" -> "text-green-400"
      [] recommendation = "Neutral" -> "text-yellow-500"
      [] recommendation = "Caution" -> "text-orange-500"
      [] recommendation = "Pass" -> "text-red-500"

Tiers == {"Strong Buy", "Buy", "Neutral", "Caution", "Pass"}

\* C8: the recommendation is decided by the score thresholds alone (>= 85
\* Strong Buy, 70..84 Buy, 50..69 Neutral, 30..49 Caution, below 30 Pass) and
\* the colour is a fixed, one-to-one function of the tier.
C8_TierByThreshold ==
    scoreCall.recommendation # "" =>
        LET score == scoreCall.score
            rec == scoreCall.recommendation
        IN  /\ score.k = "fin"
            /\ (score.v >= 85 * SCALE) <=> (rec = "Strong Buy")
            /\ (score.v >= 70 * SCALE /\ score.v < 85 * SCALE) <=> (rec = "Buy")
            /\ (score.v >= 50 * SCALE /\ score.v < 70 * SCALE) <=> (rec = "Neutral")
            /\ (score.v >= 30 * SCALE /\ score.v < 50 * SCALE) <=> (rec = "Caution")
            /\ (score.v < 30 * SCALE) <=> (rec = "Pass")
            /\ rec \in Tiers
            /\ scoreCall.color = TierColor(rec)
            /\ \A t1, t2 \in Tiers : TierColor(t1) = TierColor(t2) => t1 = t2

\* a score exactly on the highest threshold
C8_ScoreOnThreshold ==
    /\ scoreCall.score = Num(85)
    /\ scoreCall.recommendation = "Strong Buy"
    /\ scoreCall.weaknessCount > 0

C10_ZeroRateIsSum ==
    npvCall.discountRate = Num(0) =>
        /\ npvCall.npv = SumSeq(npvCall.cashFlows, Num(0))
        /\ (npvCall.cashFlows = <<>> => npvCall.npv = Num(0))

C10_SeveralYearsAtZeroRate ==
    /\ npvCall.discountRate = Num(0)
    /\ Len(npvCall.cashFlows) >= 3
    /\ npvCall.cashFlows[1].v < 0
    /\ npvCall.npv.v # 0

\* both finite and no further apart than tol units of 1/SCALE
Near(x, y, tol) == x.k = "fin" /\ y.k = "fin" /\ AbsInt(x.v - y.v) <= tol

\* C11: with an annual interest rate of 0 calculateAnnualDebtService returns
\* the straight-line payment principal / years, a finite number, and not the
\* result of a division by zero.
C11_ZeroRateStraightLine ==
    (/\ results # Null
     /\ parseInt(Submitted.interestRate) = Num(0)
     /\ Gt(parseInt(Submitted.loanTerm), Num(0)))
    => LET years == parseInt(Submitted.loanTerm)
           bankLoan == results[1].bankLoan
           sellerNote == results[1].sellerNote
       IN  /\ Near(calculateAnnualDebtService(bankLoan, Num(0), years),
                   Div(bankLoan, years), 12)
           /\ Near(calculateAnnualDebtService(sellerNote, Num(0), years),
                   Div(sellerNote, years), 12)
           /\ results[1].totalDebtService.k = "fin"

\* comparisons of a number with the constant n / SCALE, false for NaN
IsAtLeast(x, n) == (x.k = "fin" /\ x.v >= n) \/ x = PosInf

IsBelow(x, n) == (x.k = "fin" /\ x.v < n) \/ x = NegInf

IsAtMost(x, n) == (x.k = "fin" /\ x.v <= n) \/ x = NegInf

\* the coverage and the valuation adjustment of the composite score, each band
\* stated on its own
CoverageAdjustment(dscr) ==
    (IF IsAtLeast(dscr, 2 * SCALE) THEN 10 ELSE 0)
      + (IF IsAtLeast(dscr, (3 * SCALE) \div 2) /\ IsBelow(dscr, 2 * SCALE)
         THEN 5 ELSE 0)
      - (IF IsBelow(dscr, (5 * SCALE) \div 4) THEN 10 ELSE 0)

ValuationAdjustment(multiple) ==
    (IF IsAtMost(multiple, 4 * SCALE) THEN 10 ELSE 0)
      - (IF IsAtLeast(multiple, 7 * SCALE) THEN 10 ELSE 0)

\* the composite score before the clamp
RawDealScore(dscr, multiple, strengthCount, weaknessCount) ==
    70 + CoverageAdjustment(dscr) + ValuationAdjustment(multiple)
       + 3 * strengthCount - 3 * weaknessCount

ClampTo0And100(n) == IF n < 0 THEN 0 ELSE IF n > 100 THEN 100 ELSE n

\* C12: calculateDealScore is 70, +10 for DSCR >= 2, +5 for 1.5 <= DSCR < 2,
\* -10 for DSCR < 1.25, +10 for ebitdaMultiple <= 4, -10 for ebitdaMultiple
\* >= 7, +3 per strength, -3 per weakness, the total clamped into [0, 100].
C12_DealScoreFormula ==
    scoreCall.recommendation # "" =>
        LET raw == RawDealScore(scoreCall.debtServiceCoverageRatio,
                                scoreCall.ebitdaMultiple,
                                scoreCall.strengthCount,
                                scoreCall.weaknessCount)
        IN  /\ scoreCall.score = Num(ClampTo0And100(raw))
            /\ InRange0To100(scoreCall.score)

\* a deal with a strength whose total fell below 0 and was clamped to 0
C12_ClampedAtZero ==
    /\ scoreCall.recommendation # ""
    /\ scoreCall.strengthCount > 0
    /\ RawDealScore(scoreCall.debtServiceCoverageRatio, scoreCall.ebitdaMultiple,
                    scoreCall.strengthCount, scoreCall.weaknessCount) < 0
    /\ scoreCall.score = Num(0)

\* how many findings of a list carry the given text
CountText(list, text) ==
    LET Is(f) == f.text = text IN Len(SelectSeq(list, Is))

\* C13: in analyzeDeal the ebitdaMultiple rule adds one strength for a
\* multiple <= 4, one weakness for a multiple >= 7 and nothing in between;
\* the DSCR rule adds one strength for DSCR >= 1.5, one weakness for DSCR <
\* 1.25 and nothing for 1.25 <= DSCR < 1.5; neither rule adds both; and the
\* DSCR strength is there exactly when calculateDealScore adjusts the score
\* upward for the DSCR.
C13_ValuationAndCoverageBands ==
    analysis # Null =>
        LET multiple == results[1].ebitdaMultiple
            dscr == results[1].debtServiceCoverageRatio
            below == CountText(analysis[1].strengths,
                               "Below market valuation (EBITDA multiple < 4x)")
            premium == CountText(analysis[1].weaknesses,
                                 "Premium valuation (EBITDA multiple > 7x)")
            strong == CountText(analysis[1].strengths, "Strong debt coverage")
            tight == CountText(analysis[1].weaknesses, "Tight debt coverage")
            neutral == [results[1] EXCEPT !.ebitdaMultiple = Num(5)]
        IN  /\ below = (IF IsAtMost(multiple, 4 * SCALE) THEN 1 ELSE 0)
            /\ premium = (IF IsAtLeast(multiple, 7 * SCALE) THEN 1 ELSE 0)
            /\ below + premium <= 1
            /\ strong = (IF IsAtLeast(dscr, (3 * SCALE) \div 2) THEN 1 ELSE 0)
            /\ tight = (IF IsBelow(dscr, (5 * SCALE) \div 4) THEN 1 ELSE 0)
            /\ strong + tight <= 1
            /\ (strong = 1) <=> Gt(calculateDealScore(neutral, 0, 0), Num(70))

\* a deal on both thresholds: coverage exactly 1.5 earns the strength, a
\* multiple of exactly 7 the weakness
C13_OnBothThresholds ==
    /\ analysis # Null
    /\ results[1].debtServiceCoverageRatio = Ratio(3, 2)
    /\ results[1].ebitdaMultiple = Num(7)
    /\ CountText(analysis[1].strengths, "Strong debt coverage") = 1
    /\ CountText(analysis[1].weaknesses,
                 "Premium valuation (EBITDA multiple > 7x)") = 1

\* C14: the internalRateOfReturn of the metrics is the mean of the five
\* projected cash flows of years 1 to 5, divided by the absolute value of the
\* year-0 cash flow, times 100.
C14_IRRMeanOfFiveYears ==
    results # Null =>
        LET cashFlows == results[1].projectedCashFlows
            projected == Tail(cashFlows)
            averageReturn == Div(SumSeq(projected, Num(0)), Num(5))
        IN  /\ Len(projected) = 5
            /\ results[1].internalRateOfReturn
                 = Mul(Div(averageReturn, MathAbs(cashFlows[1])), Num(100))

IsNumber(x) == x.k \in {"fin", "nan", "inf"}

IsInfinite(x) == x.k = "inf"

\* C15: calculateMetrics and analyzeDeal have no error outcome: on every
\* record of strings, zero, empty and non-numeric ones included, they return
\* metrics and an analysis whose recommendation is one of the five tiers with
\* its colour; a division by zero or an unparsable field shows as an infinite
\* or not-a-number metric.
C15_NoErrorOutcome ==
    results # Null =>
        LET askingPrice == ParseCurrency(Submitted.askingPrice)
            revenue == ParseCurrency(Submitted.revenue)
            ebitda == ParseCurrency(Submitted.ebitda)
            interestRate == parseInt(Submitted.interestRate)
            downPayment == parseInt(Submitted.downPayment)
            m == results[1]
        IN  /\ analysis # Null
            /\ analysis[1].recommendation \in Tiers
            /\ analysis[1].color = TierColor(analysis[1].recommendation)
            /\ \A f \in {"ebitdaMultiple", "revenueMultiple", "priceToEarnings",
                         "debtServiceCoverageRatio", "returnOnInvestment",
                         "paybackPeriod", "netPresentValue",
                         "internalRateOfReturn", "totalDebtService"} :
                   IsNumber(m[f])
            /\ Len(m.projectedCashFlows) > 0
            /\ \A i \in 1..Len(m.projectedCashFlows) :
                   IsNumber(m.projectedCashFlows[i])
            \* unparsable fields
            /\ (askingPrice = NaN \/ ebitda = NaN) => m.ebitdaMultiple = NaN
            /\ (askingPrice = NaN \/ revenue = NaN) => m.revenueMultiple = NaN
            /\ interestRate = NaN => m.totalDebtService = NaN
            /\ downPayment = NaN => m.internalRateOfReturn = NaN
            \* divisions by zero
            /\ (ebitda = Num(0) /\ Gt(askingPrice, Num(0)))
                   => m.ebitdaMultiple = PosInf /\ m.paybackPeriod = PosInf
            /\ (ebitda = Num(0) /\ askingPrice = Num(0))
                   => m.ebitdaMultiple = NaN
            /\ (revenue = Num(0) /\ Gt(askingPrice, Num(0)))
                   => m.revenueMultiple = PosInf
            /\ interestRate = Num(0)
                   => m.totalDebtService = NaN
                        /\ m.debtServiceCoverageRatio = NaN
            /\ downPayment = Num(0)
                   => IsInfinite(m.internalRateOfReturn)
                        \/ m.internalRateOfReturn = NaN

\* a record with no EBITDA at a zero interest rate and without down payment,
\* evaluated all the same
C15_DegenerateEvaluated ==
    /\ results # Null
    /\ Submitted.ebitda = <<>>
    /\ parseInt(Submitted.interestRate) = Num(0)
    /\ parseInt(Submitted.downPayment) = Num(0)
    /\ results[1].ebitdaMultiple = NaN
    /\ results[1].debtServiceCoverageRatio = NaN
    /\ analysis[1].recommendation \in Tiers

\* equal as numbers, or finite and no further apart than tol units of 1/SCALE
\* (the rounding of the two computations)
EqualUpTo(x, y, tol) == NumEq(x, y) \/ Near(x, y, tol)

\* the year-1 cash flow that the projection would give if it subtracted the
\* debt service tds
YearOneCashFlow(v, tds) ==
    MathRound(Sub(Sub(Mul(ParseCurrency(v.ebitda),
                          Add(Num(1), growthRates[1])), tds),
                  ParseCurrency(v.ownerSalary)))

\* the debt services of the submission agree: the one of the combined
\* principal, the reported sum of the two separate ones, the one the projection
\* subtracted, and those after a change of the seller-note percentage
DebtServicesAgree ==
    LET v == Submitted
        m == results[1]
        rate == parseInt(v.interestRate)
        term == parseInt(v.loanTerm)
        combined == calculateAnnualDebtService(Add(m.bankLoan, m.sellerNote),
                                               rate, term)
        financed == Sub(ParseCurrency(v.askingPrice),
                        Mul(ParseCurrency(v.askingPrice),
                            Div(parseInt(v.downPayment), Num(100))))
    IN  /\ EqualUpTo(combined, m.totalDebtService, 12)
        /\ EqualUpTo(m.projectedCashFlows[2],
                     YearOneCashFlow(v, m.totalDebtService), SCALE)
        /\ EqualUpTo(m.totalDebtService,
                     calculateAnnualDebtService(financed, rate, term), 12)
        /\ \A pct \in {<<"0">>, <<"4", "0">>} :
               LET other == calculateMetrics([v EXCEPT !.sellerNote = pct])
               IN  /\ EqualUpTo(other.totalDebtService, m.totalDebtService, 24)
                   /\ EqualUpTo(other.projectedCashFlows[2],
                                m.projectedCashFlows[2], SCALE)

\* C16 (as stated): for every input with a non-zero rate the debt service
\* subtracted in the projection (combined principal) equals the reported
\* totalDebtService (bank loan and seller note amortized separately), and
\* neither changes with the seller-note percentage.
C16_CombinedEqualsSeparate ==
    (results # Null /\ parseInt(Submitted.interestRate) # Num(0))
        => DebtServicesAgree

\* C16 (amended): the same for every input with a non-zero rate whose
\* reported totalDebtService is a finite number.
C16_CombinedEqualsSeparateWhenFinite ==
    (/\ results # Null
     /\ parseInt(Submitted.interestRate) # Num(0)
     /\ results[1].totalDebtService.k = "fin")
        => DebtServicesAgree

\* a financed purchase with a bank loan and a seller note, both serviced
C16_BothLoansServiced ==
    /\ results # Null
    /\ parseInt(Submitted.interestRate) # Num(0)
    /\ results[1].bankLoan.v > 0
    /\ results[1].sellerNote.v > 0
    /\ results[1].totalDebtService.k = "fin"
    /\ results[1].totalDebtService.v > 0

\* the composite score analyzeDeal computes for the metrics, before the clamp
RawScoreOf(metrics) ==
    LET a == analyzeDeal(metrics)
    IN  RawDealScore(metrics.debtServiceCoverageRatio, metrics.ebitdaMultiple,
                     Len(a.strengths), Len(a.weaknesses))

ReachableScores == {RawScoreOf(m) : m \in MetricsInputs}

ReachableTiers == {analyzeDeal(m).recommendation : m \in MetricsInputs}

\* C17: analyzeDeal produces at most 5 strengths and between 2 and 8
\* weaknesses, and the composite score it maps to a tier lies in [26, 99], both
\* ends attained: the clamp of calculateDealScore leaves it unchanged, 100 is
\* never reached, and every one of the five tiers is the recommendation of
\* some metrics.
C17_FindingAndScoreBounds ==
    analysis # Null =>
        LET strengthCount == Len(analysis[1].strengths)
            weaknessCount == Len(analysis[1].weaknesses)
            raw == RawDealScore(results[1].debtServiceCoverageRatio,
                                results[1].ebitdaMultiple,
                                strengthCount, weaknessCount)
            score == calculateDealScore(results[1], strengthCount,
                                        weaknessCount)
        IN  /\ strengthCount <= 5
            /\ 2 <= weaknessCount /\ weaknessCount <= 8
            /\ 26 <= raw /\ raw <= 99
            /\ score = Num(raw)
            /\ score # Num(100)
            /\ analysis[1].recommendation = Recommend(score).recommendation
            /\ 26 \in ReachableScores /\ 99 \in ReachableScores
            /\ ReachableTiers = Tiers

\* the weakest deal: no strength, all eight weaknesses, a score of 26
C17_WeakestDeal ==
    /\ analysis # Null
    /\ Len(analysis[1].strengths) = 0
    /\ Len(analysis[1].weaknesses) = 8
    /\ calculateDealScore(results[1], 0, 8) = Num(26)
    /\ analysis[1].recommendation = "Pass"

\* the condition under which BusinessCalculator renders AnalysisResults
PanelRendered == results # Null /\ analysis # Null

C19_ThreatSaturates ==
    (/\ results # Null
     /\ Ge(ParseCurrency(Submitted.askingPrice), Num(20))
     /\ Ge(ParseCurrency(Submitted.recurringRevenue), Num(0)))
    => results[1].competitiveThreat = Num(100)

\* a deal priced at exactly 20 dollars, without recurring revenue and in an
\* industry without vulnerability constant: the price term alone reaches 100
C19_PricedAtTwenty ==
    /\ results # Null
    /\ ParseCurrency(Submitted.askingPrice) = Num(20)
    /\ ParseCurrency(Submitted.recurringRevenue) = Num(0)
    /\ Submitted.industry \notin {"tech", "retail", "manufacturing"}
    /\ results[1].competitiveThreat = Num(100)

=============================================================================
